---- MODULE Spec2Model ----
(***************************************************************************)
(* autossh-go: the connection Monitor (internal/monitor), the SSH Client   *)
(* handle (internal/ssh), the tunnel Manager and the forwarding endpoints  *)
(* (internal/tunnel), modelled as one state machine.                       *)
(*                                                                         *)
(* Durations are counted in whole seconds.  Every goroutine of the program *)
(* is a process of the model: the Monitor's Start(), the callers of        *)
(* Stop(), one keepalive task per session, one accept loop per endpoint    *)
(* and the relay tasks each endpoint spawns.                               *)
(***************************************************************************)
EXTENDS Integers, Sequences, FiniteSets, TLC

\* ------------------------------------------------------------------ bounds
\* Successful Connect() calls (sessions) explored.
MaxSessions == 2
\* Consecutive failed Connect() calls explored when maxRetries = 0.
MaxFails == 4
\* Largest cfg.Reconnect.MaxRetries explored.
MaxRetriesCfg == 3
\* Calls of Monitor.Stop() explored.
MaxStopCalls == 2
\* Relay tasks alive at once per endpoint.
MaxConns == 1
\* Inputs of the calculateBackoff harness.
MaxAttempt == 8
MaxBase == 70

\* ------------------------------------------------------- program constants
\* maxBackoff := 60 * time.Second
maxBackoff == 60
\* cfg.Reconnect.Interval of DefaultConfig(): 5 * time.Second
defaultInterval == 5

\* cfg.Tunnels of the configuration explored: one -L and one -D forward,
\* in the order Manager.Start() creates them.
TunnelKinds == <<"local", "dynamic">>
NumTunnels == Len(TunnelKinds)
Idx == 1..NumTunnels
Sessions == 1..MaxSessions

\* cfg.Reconnect.Interval values explored by the Monitor: the default, and
\* one above the ceiling.
Intervals == {defaultInterval, maxBackoff + 30}

VARIABLES
  \* cfg.Reconnect
  enabled, maxRetries, interval,
  \* Monitor: position of Start(), its locals and fields
  monPc, running, stopClosed, retryCount, waitTime, result, why, stopIdx,
  \* Client
  conn, closed,
  \* keepalive tasks and the errChan of the current session
  kaAlive, errChan,
  \* Manager: number of Start() calls, m.tunnels # nil, m.ctx done, and
  \* whether the errChan of the running Start() holds an error, and whether
  \* the 100 ms timeoutCtx of the running Start() is done
  gen, tunnels, ctxDone, startErr, graceOver,
  \* the tunnels of m.tunnels (of the latest Manager.Start()), per index
  ep,
  \* what earlier Manager.Start() calls left behind: the bind addresses held
  \* by listeners of tunnels m.tunnels no longer names
  leaked,
  \* history
  consecFails, backoffRun, pendingDrop, stopAt, stopCloses, stopCalls,
  \* history: while the Monitor waits on a running session, a connection has
  \* ended in a failure of its own (dial failure, protocol violation, client
  \* gone)
  connFailed,
  \* harness of the pure functions
  args, out

cfgVars == <<enabled, maxRetries, interval>>
monVars == <<monPc, running, stopClosed, retryCount, waitTime, result, why, stopIdx>>
cliVars == <<conn, closed>>
kaVars == <<kaAlive, errChan>>
mgrVars == <<gen, tunnels, ctxDone, startErr, graceOver>>
epVars == <<ep, leaked>>
histVars == <<consecFails, backoffRun, pendingDrop, stopAt, stopCloses, stopCalls,
              connFailed>>
fnVars == <<args, out>>
vars == <<cfgVars, monVars, cliVars, kaVars, mgrVars, epVars, histVars, fnVars>>

\* ------------------------------------------------------------ calculateBackoff
RECURSIVE backoffLoop(_, _, _)
\* for i := 1; i < attempt && i < 6; i++ { backoff *= 2 }
backoffLoop(i, attempt, backoff) ==
  IF i < attempt /\ i < 6 THEN backoffLoop(i + 1, attempt, backoff * 2) ELSE backoff

\* calculateBackoff without its 60 s ceiling.
calculateBackoffUncapped(attempt, baseInterval) ==
  backoffLoop(1, attempt, baseInterval)

calculateBackoff(attempt, baseInterval) ==
  LET backoff == backoffLoop(1, attempt, baseInterval)
  IN IF backoff > maxBackoff THEN maxBackoff ELSE backoff

\* ------------------------------------------------------------------ endpoints
\* A tunnel object as NewLocalTunnel/NewDynamicTunnel leave it, before the
\* goroutine of Manager.Start() has run its Start().
NoEndpoint == [pc |-> "none", field |-> FALSE, open |-> FALSE, pre |-> 0, copy |-> 0]
NewTunnel == [pc |-> "spawned", field |-> FALSE, open |-> FALSE, pre |-> 0, copy |-> 0]

\* t.wg: one count per relay task that has not yet run its deferred Done().
wg(i) == ep[i].pre + ep[i].copy

\* The bind address of tunnel i is held by a listener: net.Listen on it fails.
AddrInUse(i) == ep[i].open \/ i \in leaked

\* ------------------------------------------------------------------- Init
MonitorInit ==
  /\ monPc = "idle"
  /\ running = FALSE
  /\ stopClosed = FALSE
  /\ retryCount = 0
  /\ waitTime = 0
  /\ result = "none"
  /\ why = "none"
  /\ stopIdx = 0
  /\ conn = 0
  /\ closed = FALSE
  /\ kaAlive = {}
  /\ errChan = FALSE
  /\ gen = 0
  /\ tunnels = FALSE
  /\ ctxDone = FALSE
  /\ startErr = FALSE
  /\ graceOver = FALSE
  /\ ep = [i \in Idx |-> NoEndpoint]
  /\ leaked = {}
  /\ consecFails = 0
  /\ backoffRun = 0
  /\ pendingDrop = FALSE
  /\ stopAt = "none"
  /\ stopCloses = 0
  /\ stopCalls = 0
  /\ connFailed = FALSE

\* The cfg.Reconnect values explored: every enabled/max_retries pair with the
\* default interval, and the longer interval with unbounded retries.
Configs ==
  {c \in [enabled : BOOLEAN, maxRetries : 0..MaxRetriesCfg, interval : Intervals] :
     c.interval # defaultInterval => (c.enabled /\ c.maxRetries = 0)}

Init ==
  /\ \E c \in Configs :
       enabled = c.enabled /\ maxRetries = c.maxRetries /\ interval = c.interval
  /\ MonitorInit
  /\ args = <<>>
  /\ out = <<>>

\* ------------------------------------------------------------ Monitor.Start
\* m.mu.Lock(); m.running = true; m.mu.Unlock(); retryCount := 0
MonStartEnter ==
  /\ monPc = "idle"
  /\ running' = TRUE
  /\ retryCount' = 0
  /\ monPc' = "check"
  /\ UNCHANGED <<stopClosed, waitTime, result, why, stopIdx>>
  /\ UNCHANGED <<cfgVars, cliVars, kaVars, mgrVars, epVars, histVars, fnVars>>

\* Top of the loop: select { case <-m.stopCh: return nil; default: }
MonCheckStop ==
  /\ monPc = "check"
  /\ IF stopClosed
       THEN monPc' = "done" /\ result' = "nil"
       ELSE monPc' = "connect" /\ result' = result
  /\ UNCHANGED <<running, stopClosed, retryCount, waitTime, why, stopIdx>>
  /\ UNCHANGED <<cfgVars, cliVars, kaVars, mgrVars, epVars, histVars, fnVars>>

\* A successful connect that leaves retryCount as it was.
RetryCountKept == retryCount

\* "retryCount = 0" after a successful Connect().
RetryCountAfterConnect == 0

\* Client.Connect() succeeds: c.conn = conn; c.closed = false.  Back in
\* Start(): retryCount = 0.
MonConnectOk ==
  /\ monPc = "connect"
  /\ gen < MaxSessions
  /\ conn' = gen + 1
  /\ closed' = FALSE
  /\ retryCount' = RetryCountAfterConnect
  /\ monPc' = "mgrStart"
  /\ consecFails' = 0
  /\ backoffRun' = 0
  /\ pendingDrop' = FALSE
  /\ UNCHANGED <<running, stopClosed, waitTime, result, why, stopIdx>>
  /\ UNCHANGED <<stopAt, stopCloses, stopCalls, connFailed>>
  /\ UNCHANGED <<cfgVars, kaVars, mgrVars, epVars, fnVars>>

\* The retry budget compared with > instead of >=.
ConnectFailedOffByOne(rc) ==
  IF ~enabled THEN [ret |-> TRUE, rc |-> rc]
  ELSE IF maxRetries > 0 /\ rc + 1 > maxRetries THEN [ret |-> TRUE, rc |-> rc + 1]
  ELSE [ret |-> FALSE, rc |-> rc + 1]

\* What Start() does with a failed Connect(), from the retryCount it holds:
\* return err (ret), or count the failure and back off.
ConnectFailed(rc) ==
  IF ~enabled THEN [ret |-> TRUE, rc |-> rc]
  ELSE IF maxRetries > 0 /\ rc + 1 >= maxRetries THEN [ret |-> TRUE, rc |-> rc + 1]
  ELSE [ret |-> FALSE, rc |-> rc + 1]

\* Client.Connect() fails (an old c.conn is closed and dropped first).
MonConnectFail ==
  /\ monPc = "connect"
  /\ consecFails < MaxFails
  /\ conn' = 0
  /\ LET d == ConnectFailed(retryCount) IN
       /\ retryCount' = d.rc
       /\ IF d.ret
            THEN /\ monPc' = "done"
                 /\ result' = "connErr"
                 /\ waitTime' = waitTime
                 /\ backoffRun' = backoffRun
            ELSE /\ monPc' = "backoff"
                 /\ result' = result
                 /\ waitTime' = calculateBackoff(d.rc, interval)
                 /\ backoffRun' = backoffRun + 1
  /\ consecFails' = consecFails + 1
  /\ pendingDrop' = FALSE
  /\ UNCHANGED <<running, stopClosed, why, stopIdx, closed>>
  /\ UNCHANGED <<stopAt, stopCloses, stopCalls, connFailed>>
  /\ UNCHANGED <<cfgVars, kaVars, mgrVars, epVars, fnVars>>

\* Backoff: select { case <-m.stopCh: return nil; case <-time.After(waitTime): continue }
MonBackoffStop ==
  /\ monPc = "backoff"
  /\ stopClosed
  /\ monPc' = "done"
  /\ result' = "nil"
  /\ UNCHANGED <<running, stopClosed, retryCount, waitTime, why, stopIdx>>
  /\ UNCHANGED <<cfgVars, cliVars, kaVars, mgrVars, epVars, histVars, fnVars>>

MonBackoffTimer ==
  /\ monPc = "backoff"
  /\ monPc' = "check"
  /\ UNCHANGED <<running, stopClosed, retryCount, waitTime, result, why, stopIdx>>
  /\ UNCHANGED <<cfgVars, cliVars, kaVars, mgrVars, epVars, histVars, fnVars>>

\* ------------------------------------------------------------ Manager.Start
\* m.ctx, m.cancel = context.WithCancel(...); m.tunnels = one new tunnel per
\* forward; one goroutine per tunnel running tunnel.Start(m.ctx).
\* The tunnels of the previous call are dropped without a Stop(): a listener
\* still open stays open.  A goroutine of the previous call that has not
\* reached net.Listen yet is taken to reach it now: it fails, or it binds and,
\* its ctx done, returns at the top of the loop leaving the listener open.
MgrStart ==
  /\ monPc = "mgrStart"
  /\ gen' = gen + 1
  /\ ctxDone' = FALSE
  /\ startErr' = FALSE
  /\ graceOver' = FALSE
  /\ tunnels' = TRUE
  /\ ep' = [i \in Idx |-> NewTunnel]
  /\ \E L \in SUBSET {i \in Idx : ep[i].pc = "spawned" /\ ~AddrInUse(i)} :
       leaked' = leaked \cup {i \in Idx : ep[i].open} \cup L
  /\ monPc' = "mgrWait"
  /\ connFailed' = FALSE
  /\ UNCHANGED <<consecFails, backoffRun, pendingDrop, stopAt, stopCloses, stopCalls>>
  /\ UNCHANGED <<running, stopClosed, retryCount, waitTime, result, why, stopIdx>>
  /\ UNCHANGED <<cfgVars, cliVars, kaVars, fnVars>>

\* A tunnel start failure handled like a connect failure: counted, then backoff.
AfterTunnelStartErrorCounted == [pc |-> "backoff", rc |-> retryCount + 1]

\* Where Start() goes after m.tunnelMgr.Start() returned an error:
\* m.client.Close(); continue.
AfterTunnelStartError == [pc |-> "check", rc |-> retryCount]

\* The 100 ms of timeoutCtx pass while Manager.Start() is at its select.
GraceElapsed ==
  /\ monPc = "mgrWait"
  /\ ~graceOver
  /\ graceOver' = TRUE
  /\ UNCHANGED <<gen, tunnels, ctxDone, startErr>>
  /\ UNCHANGED <<cfgVars, monVars, cliVars, kaVars, epVars, histVars, fnVars>>

\* Manager.Start() that takes the error off errChan and returns nil all the
\* same.
MonTunnelsFailedAsSuccess ==
  /\ monPc = "mgrWait"
  /\ startErr
  /\ graceOver' = FALSE
  /\ kaAlive' = kaAlive \cup {gen}
  /\ errChan' = FALSE
  /\ monPc' = "monitor"
  /\ UNCHANGED <<gen, tunnels, ctxDone, startErr>>
  /\ UNCHANGED <<running, stopClosed, retryCount, waitTime, result, why, stopIdx>>
  /\ UNCHANGED <<cfgVars, cliVars, epVars, histVars, fnVars>>

\* Manager.Start(): case err := <-errChan: m.cancel(); return err.
MonTunnelsFailed ==
  /\ monPc = "mgrWait"
  /\ startErr
  /\ ctxDone' = TRUE
  /\ graceOver' = FALSE
  /\ conn' = 0
  /\ closed' = TRUE
  /\ LET a == AfterTunnelStartError IN
       /\ monPc' = a.pc
       /\ retryCount' = a.rc
  /\ UNCHANGED <<running, stopClosed, waitTime, result, why, stopIdx>>
  /\ UNCHANGED <<gen, tunnels, startErr>>
  /\ UNCHANGED <<cfgVars, kaVars, epVars, histVars, fnVars>>

\* Manager.Start(): case <-timeoutCtx.Done(): return nil.  Back in Start():
\* errChan := make(chan error, 1); m.client.StartKeepAlive(30s, errChan).
MonTunnelsStarted ==
  /\ monPc = "mgrWait"
  /\ graceOver
  /\ graceOver' = FALSE
  /\ kaAlive' = kaAlive \cup {gen}
  /\ errChan' = FALSE
  /\ monPc' = "monitor"
  /\ UNCHANGED <<gen, tunnels, ctxDone, startErr>>
  /\ UNCHANGED <<running, stopClosed, retryCount, waitTime, result, why, stopIdx>>
  /\ UNCHANGED <<cfgVars, cliVars, epVars, histVars, fnVars>>

\* --------------------------------------------------------------- monitoring
\* The transport closed before the Tunnel Manager is stopped.
AfterStopSignalCloseFirst == "close"

\* case <-m.stopCh: m.tunnelMgr.Stop() comes first.
AfterStopSignal == "mgrStop"

\* select { case <-m.stopCh: ... }
MonStopSignal ==
  /\ monPc = "monitor"
  /\ stopClosed
  /\ why' = "stop"
  /\ monPc' = AfterStopSignal
  /\ UNCHANGED <<running, stopClosed, retryCount, waitTime, result, stopIdx>>
  /\ UNCHANGED <<cfgVars, cliVars, kaVars, mgrVars, epVars, histVars, fnVars>>

\* select { case err := <-errChan: ... }
MonDisconnected ==
  /\ monPc = "monitor"
  /\ errChan
  /\ errChan' = FALSE
  /\ why' = "err"
  /\ monPc' = "mgrStop"
  /\ pendingDrop' = TRUE
  /\ UNCHANGED kaAlive
  /\ UNCHANGED <<running, stopClosed, retryCount, waitTime, result, stopIdx>>
  /\ UNCHANGED <<consecFails, backoffRun, stopAt, stopCloses, stopCalls, connFailed>>
  /\ UNCHANGED <<cfgVars, cliVars, mgrVars, epVars, fnVars>>

\* ------------------------------------------------------------- Manager.Stop
\* if m.cancel != nil { m.cancel() }
MgrStop ==
  /\ monPc = "mgrStop"
  /\ ctxDone' = IF gen > 0 THEN TRUE ELSE ctxDone
  /\ stopIdx' = 1
  /\ monPc' = "tunStop"
  /\ connFailed' = FALSE
  /\ UNCHANGED <<consecFails, backoffRun, pendingDrop, stopAt, stopCloses, stopCalls>>
  /\ UNCHANGED <<gen, tunnels, startErr, graceOver>>
  /\ UNCHANGED <<running, stopClosed, retryCount, waitTime, result, why>>
  /\ UNCHANGED <<cfgVars, cliVars, kaVars, epVars, fnVars>>

\* t.Stop(): if t.listener != nil { t.listener.Close(); t.listener = nil;
\* t.wg.Wait() }: up to the Wait.
TunnelStop ==
  /\ monPc = "tunStop"
  /\ tunnels
  /\ stopIdx <= NumTunnels
  /\ IF ep[stopIdx].field
       THEN /\ ep' = [ep EXCEPT ![stopIdx].field = FALSE,
                                ![stopIdx].open = FALSE]
            /\ monPc' = "tunWait"
            /\ stopIdx' = stopIdx
       ELSE /\ ep' = ep
            /\ monPc' = monPc
            /\ stopIdx' = stopIdx + 1
  /\ UNCHANGED <<running, stopClosed, retryCount, waitTime, result, why>>
  /\ UNCHANGED <<cfgVars, cliVars, kaVars, mgrVars, leaked, histVars, fnVars>>

\* t.wg.Wait() returns once every relay task of the tunnel has called Done().
TunnelWait ==
  /\ monPc = "tunWait"
  /\ wg(stopIdx) = 0
  /\ stopIdx' = stopIdx + 1
  /\ monPc' = "tunStop"
  /\ UNCHANGED <<running, stopClosed, retryCount, waitTime, result, why>>
  /\ UNCHANGED <<cfgVars, cliVars, kaVars, mgrVars, epVars, histVars, fnVars>>

\* Stop() that returns without "m.tunnels = nil".
MgrStopDoneKeepsTunnels ==
  /\ monPc = "tunStop"
  /\ ~tunnels \/ stopIdx > NumTunnels
  /\ monPc' = "close"
  /\ UNCHANGED <<gen, tunnels, ctxDone, startErr, graceOver>>
  /\ UNCHANGED <<running, stopClosed, retryCount, waitTime, result, why, stopIdx>>
  /\ UNCHANGED <<cfgVars, cliVars, kaVars, epVars, histVars, fnVars>>

\* End of the loop over m.tunnels: m.tunnels = nil.
MgrStopDone ==
  /\ monPc = "tunStop"
  /\ ~tunnels \/ stopIdx > NumTunnels
  /\ tunnels' = FALSE
  /\ monPc' = "close"
  /\ UNCHANGED <<gen, ctxDone, startErr, graceOver>>
  /\ UNCHANGED <<running, stopClosed, retryCount, waitTime, result, why, stopIdx>>
  /\ UNCHANGED <<cfgVars, cliVars, kaVars, epVars, histVars, fnVars>>

\* A disconnect that is retried whatever cfg.Reconnect.Enabled says.
AfterCloseAlwaysRetry ==
  IF why = "stop" THEN [pc |-> "done", result |-> "nil"]
  ELSE [pc |-> "check", result |-> result]

\* After m.client.Close(): return nil (stop), return err (reconnection
\* disabled) or the next iteration of the loop.
AfterClose ==
  IF why = "stop" THEN [pc |-> "done", result |-> "nil"]
  ELSE IF ~enabled THEN [pc |-> "done", result |-> "kaErr"]
  ELSE [pc |-> "check", result |-> result]

\* m.client.Close() once m.tunnelMgr.Stop() has returned, then AfterClose.
MonClose ==
  /\ monPc = "close"
  /\ conn' = 0
  /\ closed' = TRUE
  /\ monPc' = AfterClose.pc
  /\ result' = AfterClose.result
  /\ UNCHANGED <<running, stopClosed, retryCount, waitTime, why, stopIdx>>
  /\ UNCHANGED <<cfgVars, kaVars, mgrVars, epVars, histVars, fnVars>>

\* ------------------------------------------------------------- Monitor.Stop
\* m.mu.Lock(); if m.running { close(m.stopCh); m.running = false }; Unlock.
\* Stop() that forgets "m.running = false".
StopBodyKeepsRunning == [close |-> running, running |-> running]

StopBody == [close |-> running, running |-> FALSE]

MonitorStop ==
  /\ stopCalls < MaxStopCalls
  /\ stopCalls' = stopCalls + 1
  /\ LET s == StopBody IN
       /\ stopCloses' = IF s.close THEN stopCloses + 1 ELSE stopCloses
       /\ stopClosed' = (stopClosed \/ s.close)
       /\ running' = s.running
       /\ stopAt' = IF s.close /\ ~stopClosed
                       THEN (IF monPc \in {"monitor", "backoff"} THEN monPc ELSE "other")
                       ELSE stopAt
  /\ UNCHANGED <<monPc, retryCount, waitTime, result, why, stopIdx>>
  /\ UNCHANGED <<consecFails, backoffRun, pendingDrop, connFailed>>
  /\ UNCHANGED <<cfgVars, cliVars, kaVars, mgrVars, epVars, fnVars>>

\* ---------------------------------------------------------------- keepalive
\* A task that reports a failed probe and keeps ticking.
KeepAliveTickStays(s) ==
  /\ s \in kaAlive
  /\ IF closed
       THEN kaAlive' = kaAlive \ {s} /\ errChan' = errChan
       ELSE \/ conn # 0 /\ UNCHANGED <<kaAlive, errChan>>
            \/ /\ kaAlive' = kaAlive
               /\ ~errChan
               /\ errChan' = (s = gen)
  /\ UNCHANGED <<cfgVars, monVars, cliVars, mgrVars, epVars, histVars, fnVars>>

\* One tick of the task of session s: if c.IsClosed() return; KeepAlive()
\* succeeds (nothing changes) or fails (errChan <- err; return).
KeepAliveTick(s) ==
  /\ s \in kaAlive
  /\ IF closed
       THEN kaAlive' = kaAlive \ {s} /\ errChan' = errChan
       ELSE \/ conn # 0 /\ UNCHANGED <<kaAlive, errChan>>
            \/ /\ kaAlive' = kaAlive \ {s}
               /\ errChan' = (errChan \/ s = gen)
  /\ UNCHANGED <<cfgVars, monVars, cliVars, mgrVars, epVars, histVars, fnVars>>

\* ---------------------------------------------------------------- endpoints
\* Top of the accept loop: select { case <-ctx.Done(): return nil; default: },
\* then listener.Accept() blocks.
LoopTop == IF ctxDone THEN "exited" ELSE "accept"

\* Start(): net.Listen succeeds: t.listener = listener; into the accept loop.
EpListenOk(i) ==
  /\ ep[i].pc = "spawned"
  /\ ~AddrInUse(i)
  /\ ep' = [ep EXCEPT ![i].pc = LoopTop, ![i].field = TRUE, ![i].open = TRUE]
  /\ UNCHANGED <<cfgVars, monVars, cliVars, kaVars, mgrVars, leaked, histVars, fnVars>>

\* Start(): net.Listen fails and Start() returns the error; the goroutine of
\* Manager.Start() puts it on errChan unless m.ctx is already done.
EpListenFail(i) ==
  /\ ep[i].pc = "spawned"
  /\ ep' = [ep EXCEPT ![i].pc = "exited"]
  /\ startErr' = (startErr \/ ~ctxDone)
  /\ UNCHANGED <<gen, tunnels, ctxDone, graceOver, leaked>>
  /\ UNCHANGED <<cfgVars, monVars, cliVars, kaVars, histVars, fnVars>>

\* Accept() returns a connection.
EpAccept(i) ==
  /\ ep[i].pc = "accept"
  /\ ep[i].open
  /\ wg(i) < MaxConns
  /\ ep' = [ep EXCEPT ![i].pc = "accepted"]
  /\ UNCHANGED <<cfgVars, monVars, cliVars, kaVars, mgrVars, leaked, histVars, fnVars>>

\* Accept() returns an error (the listener was closed): return nil if
\* ctx is done, otherwise log, continue, and Accept() fails again.
EpAcceptErr(i) ==
  /\ ep[i].pc = "accept"
  /\ ~ep[i].open
  /\ ep' = [ep EXCEPT ![i].pc = LoopTop]
  /\ UNCHANGED <<cfgVars, monVars, cliVars, kaVars, mgrVars, leaked, histVars, fnVars>>

\* t.wg.Add(1); go t.handleConnection(ctx, conn); back to the top of the loop.
EpSpawn(i) ==
  /\ ep[i].pc = "accepted"
  /\ ep' = [ep EXCEPT ![i].pc = LoopTop, ![i].pre = @ + 1]
  /\ UNCHANGED <<cfgVars, monVars, cliVars, kaVars, mgrVars, leaked, histVars, fnVars>>

\* -------------------------------------------------------------- relay tasks
\* handleConnection before bidirectionalCopy: the SOCKS5 handshake and
\* request of a dynamic tunnel wait for the client's bytes; a local tunnel
\* waits for t.client.Dial.
RelayReady(i) ==
  /\ ep[i].pre > 0
  /\ ep' = [ep EXCEPT ![i].pre = @ - 1, ![i].copy = @ + 1]
  /\ UNCHANGED <<cfgVars, monVars, cliVars, kaVars, mgrVars, leaked, histVars, fnVars>>

\* A failing connection that takes the endpoint's listener down with it.
RelayAbortClosesListener(i) ==
  /\ ep[i].pre > 0
  /\ ep' = [ep EXCEPT ![i].pre = @ - 1, ![i].open = FALSE]
  /\ connFailed' = (connFailed \/ (monPc = "monitor" /\ ~ctxDone))
  /\ UNCHANGED <<consecFails, backoffRun, pendingDrop, stopAt, stopCloses, stopCalls>>
  /\ UNCHANGED <<cfgVars, monVars, cliVars, kaVars, mgrVars, leaked, fnVars>>

\* handleConnection returns before relaying (dial failure, protocol
\* violation, client gone): deferred conn.Close() and wg.Done().
RelayAbort(i) ==
  /\ ep[i].pre > 0
  /\ ep' = [ep EXCEPT ![i].pre = @ - 1]
  /\ connFailed' = (connFailed \/ (monPc = "monitor" /\ ~ctxDone))
  /\ UNCHANGED <<consecFails, backoffRun, pendingDrop, stopAt, stopCloses, stopCalls>>
  /\ UNCHANGED <<cfgVars, monVars, cliVars, kaVars, mgrVars, leaked, fnVars>>

\* bidirectionalCopy returns: case <-ctx.Done().
RelayCancelled(i) ==
  /\ ep[i].copy > 0
  /\ ctxDone
  /\ ep' = [ep EXCEPT ![i].copy = @ - 1]
  /\ UNCHANGED <<cfgVars, monVars, cliVars, kaVars, mgrVars, leaked, histVars, fnVars>>

\* bidirectionalCopy returns: case <-done (both directions drained).
RelayDrained(i) ==
  /\ ep[i].copy > 0
  /\ ep' = [ep EXCEPT ![i].copy = @ - 1]
  /\ UNCHANGED <<cfgVars, monVars, cliVars, kaVars, mgrVars, leaked, histVars, fnVars>>

\* ------------------------------------------------------------------- Next
MonitorNext ==
  \/ MonStartEnter
  \/ MonCheckStop
  \/ MonConnectOk
  \/ MonConnectFail
  \/ MonBackoffStop
  \/ MonBackoffTimer
  \/ MgrStart
  \/ MonTunnelsFailed
  \/ MonTunnelsStarted
  \/ MonStopSignal
  \/ MonDisconnected
  \/ MgrStop
  \/ TunnelStop
  \/ TunnelWait
  \/ MgrStopDone
  \/ MonClose

Next ==
  \/ MonitorNext
  \/ GraceElapsed
  \/ MonitorStop
  \/ \E s \in Sessions : KeepAliveTick(s)
  \/ \E i \in Idx :
       \/ EpListenOk(i)
       \/ EpListenFail(i)
       \/ EpAccept(i)
       \/ EpAcceptErr(i)
       \/ EpSpawn(i)
       \/ RelayReady(i)
       \/ RelayAbort(i)
       \/ RelayCancelled(i)
       \/ RelayDrained(i)

Spec == Init /\ [][Next]_vars

\* ------------------------------------------------------------- fairness
\* Every goroutine that can take a step of its own eventually takes it: the
\* Monitor, the grace timer, a keepalive task whose Client is closed, the
\* accept loops, a relay whose ctx is done, and the transport dial of a local
\* tunnel.  What waits for the outside world is not fair: a keepalive probe
\* failing, a client connecting, a SOCKS5 client sending its handshake, both
\* peers of a relay closing.
FairSpec ==
  /\ Spec
  /\ WF_vars(MonitorNext)
  /\ WF_vars(GraceElapsed)
  /\ WF_vars(\E s \in Sessions : closed /\ KeepAliveTick(s))
  /\ \A i \in Idx :
       /\ WF_vars(EpListenOk(i) \/ EpListenFail(i))
       /\ WF_vars(EpAcceptErr(i))
       /\ WF_vars(EpSpawn(i))
       /\ WF_vars(RelayCancelled(i))
       /\ WF_vars(TunnelKinds[i] = "local" /\ (RelayReady(i) \/ RelayAbort(i)))

\* ------------------------------------------- calculateBackoff on its own
Bases == (0 - 2)..MaxBase

BackoffInit ==
  /\ enabled = TRUE
  /\ maxRetries = 0
  /\ interval = defaultInterval
  /\ MonitorInit
  /\ args \in [attempt : 1..MaxAttempt, base : Bases]
  /\ out = <<>>

BackoffApply ==
  /\ out = <<>>
  /\ out' = <<calculateBackoff(args.attempt, args.base)>>
  /\ UNCHANGED <<cfgVars, monVars, cliVars, kaVars, mgrVars, epVars, histVars, args>>

SpecBackoff == BackoffInit /\ [][BackoffApply]_vars

\* ------------------------------------------------- the Manager on its own
\* A caller of the Manager's methods, one call at a time, in any order:
\* Start(), Stop() and Restart().  monPc = "idle" is the caller between two
\* calls, why the call in progress and result how the last call returned.
ManagerInit ==
  /\ enabled = TRUE
  /\ maxRetries = 0
  /\ interval = defaultInterval
  /\ MonitorInit
  /\ args = <<>>
  /\ out = <<>>

CallStart ==
  /\ monPc = "idle"
  /\ gen < MaxSessions
  /\ monPc' = "mgrStart"
  /\ why' = "start"
  /\ UNCHANGED <<running, stopClosed, retryCount, waitTime, result, stopIdx>>
  /\ UNCHANGED <<cfgVars, cliVars, kaVars, mgrVars, epVars, histVars, fnVars>>

CallStop ==
  /\ monPc = "idle"
  /\ stopCalls < MaxStopCalls
  /\ stopCalls' = stopCalls + 1
  /\ monPc' = "mgrStop"
  /\ why' = "stop"
  /\ UNCHANGED <<running, stopClosed, retryCount, waitTime, result, stopIdx>>
  /\ UNCHANGED <<consecFails, backoffRun, pendingDrop, stopAt, stopCloses, connFailed>>
  /\ UNCHANGED <<cfgVars, cliVars, kaVars, mgrVars, epVars, fnVars>>

\* Restart(): m.Stop() ...
CallRestart ==
  /\ monPc = "idle"
  /\ gen < MaxSessions
  /\ monPc' = "mgrStop"
  /\ why' = "restart"
  /\ UNCHANGED <<running, stopClosed, retryCount, waitTime, result, stopIdx>>
  /\ UNCHANGED <<cfgVars, cliVars, kaVars, mgrVars, epVars, histVars, fnVars>>

\* Stop() returns: to the caller, or, in Restart(), ... return m.Start().
StopReturns ==
  /\ monPc = "close"
  /\ IF why = "restart"
       THEN monPc' = "mgrStart" /\ result' = result
       ELSE monPc' = "idle" /\ result' = "stopped"
  /\ UNCHANGED <<running, stopClosed, retryCount, waitTime, why, stopIdx>>
  /\ UNCHANGED <<cfgVars, cliVars, kaVars, mgrVars, epVars, histVars, fnVars>>

\* Manager.Start(): case err := <-errChan: m.cancel(); return err.
StartReturnsErr ==
  /\ monPc = "mgrWait"
  /\ startErr
  /\ ctxDone' = TRUE
  /\ graceOver' = FALSE
  /\ monPc' = "idle"
  /\ result' = "startErr"
  /\ UNCHANGED <<gen, tunnels, startErr>>
  /\ UNCHANGED <<running, stopClosed, retryCount, waitTime, why, stopIdx>>
  /\ UNCHANGED <<cfgVars, cliVars, kaVars, epVars, histVars, fnVars>>

\* Manager.Start(): case <-timeoutCtx.Done(): return nil.
StartReturnsNil ==
  /\ monPc = "mgrWait"
  /\ graceOver
  /\ graceOver' = FALSE
  /\ monPc' = "idle"
  /\ result' = "started"
  /\ UNCHANGED <<gen, tunnels, ctxDone, startErr>>
  /\ UNCHANGED <<running, stopClosed, retryCount, waitTime, why, stopIdx>>
  /\ UNCHANGED <<cfgVars, cliVars, kaVars, epVars, histVars, fnVars>>

ManagerCalls ==
  \/ CallStart
  \/ CallStop
  \/ CallRestart
  \/ StopReturns
  \/ StartReturnsErr
  \/ StartReturnsNil
  \/ MgrStart
  \/ MgrStop
  \/ TunnelStop
  \/ TunnelWait
  \/ MgrStopDone

ManagerNext ==
  \/ ManagerCalls
  \/ GraceElapsed
  \/ \E i \in Idx :
       \/ EpListenOk(i)
       \/ EpListenFail(i)
       \/ EpAccept(i)
       \/ EpAcceptErr(i)
       \/ EpSpawn(i)
       \/ RelayReady(i)
       \/ RelayAbort(i)
       \/ RelayCancelled(i)
       \/ RelayDrained(i)

SpecManager == ManagerInit /\ [][ManagerNext]_vars

\* ------------------------------------------ one SOCKS5 connection on its own
\* DynamicTunnel.handleConnection on one accepted connection.  args is the
\* connection as the endpoint finds it: the bytes the client sends, whether
\* the client then closes its side (eof) or stays silent, whether the
\* endpoint's Write of the method selection fails (wErr), whether the dial
\* through the transport succeeds (dialOk) and the address the connection was
\* accepted on (local).  out is the handler: where it is (pc), how many bytes
\* it has consumed (pos), every buffer it has handed to conn.Write (writes),
\* and what it has parsed and dialed.
socks5Version == 5

authNone == 0

authPassword == 2

authNoAccept == 255

cmdConnect == 1

cmdBind == 2

cmdUDP == 3

addrTypeIPv4 == 1

addrTypeDomain == 3

addrTypeIPv6 == 4

repSuccess == 0

repHostUnreach == 4

repCmdNotSupported == 7

repAddrNotSupported == 8

MaxMethods == 2

Methods == {authNone, authPassword}

MethodLists == UNION {[1..n -> Methods] : n \in 0..MaxMethods}

Versions == {4, socks5Version}

Commands == {cmdConnect, cmdBind, cmdUDP}

V6Loopback == [k \in 1..16 |-> IF k = 16 THEN 1 ELSE 0]

\* ATYP followed by the address field: an IPv4 literal, an empty and a
\* one-letter domain name, an IPv6 literal, and an address type the endpoint
\* does not know.
Destinations ==
  { <<addrTypeIPv4, 127, 0, 0, 1>>,
    <<addrTypeDomain, 0>>,
    <<addrTypeDomain, 1, 97>>,
    <<addrTypeIPv6>> \o V6Loopback,
    <<5>> }

\* Port 443, big-endian.
PortBytes == <<1, 187>>

Greeting(v, m) == <<v, Len(m)>> \o m

Request(v, c, d) == <<v, c, 0>> \o d \o PortBytes

FullStreams ==
  { Greeting(v, m) \o Request(rv, c, d) :
      v \in Versions, m \in MethodLists, rv \in Versions,
      c \in Commands, d \in Destinations }

\* What the client sends: a well-formed or ill-formed exchange, or any
\* prefix of one.
ClientStreams == UNION {{SubSeq(f, 1, n) : n \in 0..Len(f)} : f \in FullStreams}

NoAddr == [ip |-> <<>>, port |-> 0]

\* The IPv4-mapped IPv6 form of 10.0.0.1.
V4Mapped ==
  [k \in 1..16 |-> IF k \in {11, 12} THEN 255
                   ELSE IF k = 13 THEN 10 ELSE IF k = 16 THEN 1 ELSE 0]

LocalAddrs == {[ip |-> <<127, 0, 0, 1>>, port |-> 1080],
               [ip |-> V4Mapped, port |-> 1080],
               [ip |-> V6Loopback, port |-> 1080]}

SocksInit ==
  /\ enabled = TRUE
  /\ maxRetries = 0
  /\ interval = defaultInterval
  /\ MonitorInit
  /\ args \in [stream : ClientStreams, eof : BOOLEAN, wErr : BOOLEAN,
               dialOk : BOOLEAN, local : LocalAddrs]
  /\ out = [pc |-> "handshake", pos |-> 0, writes |-> <<>>, numMethods |-> 0,
            addrType |-> 0, domainLen |-> 0, host |-> <<>>, target |-> <<>>, dials |-> 0,
            relay |-> FALSE]

\* io.ReadFull(conn, buf) with len(buf) = n: the n bytes if the client has
\* sent them, an error if the client closed first, and otherwise it blocks.
ReadFull(n) ==
  IF Len(args.stream) - out.pos >= n THEN "ok"
  ELSE IF args.eof THEN "err" ELSE "block"

Bytes(n) == SubSeq(args.stream, out.pos + 1, out.pos + n)

Consumed(o, n) == [o EXCEPT !.pos = @ + n]

\* A failed ReadFull has consumed what there was.
ReadFailed(o) == [o EXCEPT !.pos = Len(args.stream)]

Written(o, buf) == [o EXCEPT !.writes = Append(@, buf)]

\* handleConnection returns: defer conn.Close(), defer t.wg.Done().
Returned(o) == [o EXCEPT !.pc = "closed"]

\* binary.BigEndian
Uint16(b) == b[1] * 256 + b[2]

PutUint16LittleEndian(p) == <<p % 256, p \div 256>>

PutUint16(p) == <<p \div 256, p % 256>>

\* net.IP.To4: the 4 bytes of an IPv4 address or of an IPv4-mapped IPv6
\* address, else nil.
To4(ip) ==
  IF Len(ip) = 4 THEN ip
  ELSE IF /\ Len(ip) = 16
          /\ \A k \in 1..10 : ip[k] = 0
          /\ ip[11] = 255 /\ ip[12] = 255
       THEN SubSeq(ip, 13, 16)
  ELSE <<>>

sendReply(rep, addr) ==
  <<socks5Version, rep, 0, addrTypeIPv4>> \o
    (IF addr # NoAddr /\ addr.ip # <<>>
       THEN (IF To4(addr.ip) = <<>> THEN <<0, 0, 0, 0>> ELSE To4(addr.ip))
              \o PutUint16(addr.port)
       ELSE <<0, 0, 0, 0, 0, 0>>)

AfterBadVersionRefused(o) == Returned(Written(o, <<socks5Version, authNoAccept>>))

\* handshake: header[0] != socks5Version, return the error without a reply.
AfterBadVersion(o) == Returned(o)

hasNoAuthFirstOnly(methods) == Len(methods) > 0 /\ methods[1] = authNone

hasNoAuth(methods) == \E k \in 1..Len(methods) : methods[k] = authNone

AfterBadCommandSilent(o) == Returned(o)

\* readRequest: header[1] != cmdConnect.
AfterBadCommand(o) == Returned(Written(o, sendReply(repCmdNotSupported, NoAddr)))

AfterBadAddrTypeAsCommand(o) ==
  Returned(Written(o, sendReply(repCmdNotSupported, NoAddr)))

\* readRequest: the default branch of the address-type switch.
AfterBadAddrType(o) == Returned(Written(o, sendReply(repAddrNotSupported, NoAddr)))

SocksFrame ==
  UNCHANGED <<cfgVars, monVars, cliVars, kaVars, mgrVars, epVars, histVars, args>>

\* handshake: read version and method count.
handshakeHeader ==
  /\ out.pc = "handshake"
  /\ ReadFull(2) # "block"
  /\ out' = IF ReadFull(2) = "err" THEN Returned(ReadFailed(out))
            ELSE IF Bytes(2)[1] # socks5Version
              THEN AfterBadVersion(Consumed(out, 2))
            ELSE [Consumed(out, 2) EXCEPT !.pc = "methods",
                                          !.numMethods = Bytes(2)[2]]
  /\ SocksFrame

\* handshake: read the method list and select.
handshakeMethods ==
  /\ out.pc = "methods"
  /\ ReadFull(out.numMethods) # "block"
  /\ out' = IF ReadFull(out.numMethods) = "err" THEN Returned(ReadFailed(out))
            ELSE IF ~hasNoAuth(Bytes(out.numMethods))
              THEN Returned(Written(Consumed(out, out.numMethods),
                                    <<socks5Version, authNoAccept>>))
            ELSE IF args.wErr
              THEN Returned(Written(Consumed(out, out.numMethods),
                                    <<socks5Version, authNone>>))
            ELSE [Written(Consumed(out, out.numMethods),
                          <<socks5Version, authNone>>) EXCEPT !.pc = "request"]
  /\ SocksFrame

\* readRequest: VER | CMD | RSV | ATYP.
readRequestHeader ==
  /\ out.pc = "request"
  /\ ReadFull(4) # "block"
  /\ out' = IF ReadFull(4) = "err" THEN Returned(ReadFailed(out))
            ELSE IF Bytes(4)[1] # socks5Version THEN Returned(Consumed(out, 4))
            ELSE IF Bytes(4)[2] # cmdConnect
              THEN AfterBadCommand(Consumed(out, 4))
            ELSE IF Bytes(4)[4] \in {addrTypeIPv4, addrTypeIPv6}
              THEN [Consumed(out, 4) EXCEPT !.pc = "addr",
                                            !.addrType = Bytes(4)[4]]
            ELSE IF Bytes(4)[4] = addrTypeDomain
              THEN [Consumed(out, 4) EXCEPT !.pc = "domainLen",
                                            !.addrType = Bytes(4)[4]]
            ELSE AfterBadAddrType(Consumed(out, 4))
  /\ SocksFrame

AddrLen(t) == IF t = addrTypeIPv4 THEN 4 ELSE 16

\* readRequest: the 4 or 16 address bytes.
readRequestAddr ==
  /\ out.pc = "addr"
  /\ ReadFull(AddrLen(out.addrType)) # "block"
  /\ out' = IF ReadFull(AddrLen(out.addrType)) = "err"
              THEN Returned(ReadFailed(out))
            ELSE [Consumed(out, AddrLen(out.addrType)) EXCEPT
                    !.pc = "port",
                    !.host = <<out.addrType, Bytes(AddrLen(out.addrType))>>]
  /\ SocksFrame

\* readRequest: the domain name's length byte.
readRequestDomainLen ==
  /\ out.pc = "domainLen"
  /\ ReadFull(1) # "block"
  /\ out' = IF ReadFull(1) = "err" THEN Returned(ReadFailed(out))
            ELSE [Consumed(out, 1) EXCEPT !.pc = "domain",
                                          !.domainLen = Bytes(1)[1]]
  /\ SocksFrame

\* readRequest: the domain name.
readRequestDomain ==
  /\ out.pc = "domain"
  /\ ReadFull(out.domainLen) # "block"
  /\ out' = IF ReadFull(out.domainLen) = "err" THEN Returned(ReadFailed(out))
            ELSE [Consumed(out, out.domainLen) EXCEPT
                    !.pc = "port",
                    !.host = <<out.addrType, Bytes(out.domainLen)>>]
  /\ SocksFrame

\* readRequest: the port, and the composed target.
readRequestPort ==
  /\ out.pc = "port"
  /\ ReadFull(2) # "block"
  /\ out' = IF ReadFull(2) = "err" THEN Returned(ReadFailed(out))
            ELSE [Consumed(out, 2) EXCEPT
                    !.pc = "dial",
                    !.target = <<out.host, Uint16(Bytes(2))>>]
  /\ SocksFrame

\* handleConnection: t.client.Dial("tcp", targetAddr).
dialTarget ==
  /\ out.pc = "dial"
  /\ out' = IF args.dialOk
              THEN [out EXCEPT !.pc = "reply", !.dials = @ + 1]
              ELSE Returned(Written([out EXCEPT !.dials = @ + 1],
                                    sendReply(repHostUnreach, NoAddr)))
  /\ SocksFrame

MaxRelayed == 1

replySuccessUnannounced ==
  /\ out.pc = "reply"
  /\ out' = [out EXCEPT !.pc = "relay", !.relay = TRUE]
  /\ SocksFrame

\* A buffer of bytes the dialed target sends back.
TargetPayload == <<42>>

\* handleConnection: the success reply, then bidirectionalCopy starts.
replySuccess ==
  /\ out.pc = "reply"
  /\ out' = [Written(out, sendReply(repSuccess, args.local)) EXCEPT
               !.pc = "relay", !.relay = TRUE]
  /\ SocksFrame

\* bidirectionalCopy: io.Copy(conn1, conn2) hands a buffer that came from
\* the target to the client connection.
relayCopy ==
  /\ out.pc = "relay"
  /\ Len(out.writes) < 2 + MaxRelayed
  /\ out' = Written(out, TargetPayload)
  /\ SocksFrame

\* handleConnection: bidirectionalCopy has returned.
relayReturned ==
  /\ out.pc = "relay"
  /\ out' = Returned(out)
  /\ SocksFrame

handleConnection ==
  \/ handshakeHeader
  \/ handshakeMethods
  \/ readRequestHeader
  \/ readRequestAddr
  \/ readRequestDomainLen
  \/ readRequestDomain
  \/ readRequestPort
  \/ dialTarget
  \/ replySuccess
  \/ relayCopy
  \/ relayReturned

SpecSocks == SocksInit /\ [][handleConnection]_vars

\* ------------------------------------------ shorthand forward specs
\* ParseLocalForward, ParseRemoteForward and ParseDynamicForward on their
\* own.  A string is a sequence of symbols: ":" and colon-free pieces of
\* text.
MaxSpecLen == 5

SpecSymbols == {":", "h", "8"}

SpecStrings == UNION {[1..n -> SpecSymbols] : n \in 0..MaxSpecLen}

ForwardKinds == {"local", "remote", "dynamic"}

\* strings.Contains(s, ":")
ContainsColon(s) == \E k \in 1..Len(s) : s[k] = ":"

FirstColon(s) == CHOOSE k \in 1..Len(s) : s[k] = ":" /\ \A j \in 1..(k - 1) : s[j] # ":"

\* strings.Split(s, ":")
RECURSIVE Split(_)
Split(s) ==
  IF ~ContainsColon(s) THEN <<s>>
  ELSE <<SubSeq(s, 1, FirstColon(s) - 1)>>
         \o Split(SubSeq(s, FirstColon(s) + 1, Len(s)))

ParseError == [err |-> TRUE, bind |-> <<>>, target |-> <<>>]

ParseLocalForward(spec) ==
  LET parts == Split(spec) IN
    IF Len(parts) = 3
      THEN [err |-> FALSE,
            bind |-> <<"127.0.0.1", ":">> \o parts[1],
            target |-> parts[2] \o <<":">> \o parts[3]]
    ELSE IF Len(parts) = 4
      THEN [err |-> FALSE,
            bind |-> parts[1] \o <<":">> \o parts[2],
            target |-> parts[3] \o <<":">> \o parts[4]]
    ELSE ParseError

ParseRemoteForward(spec) ==
  LET parts == Split(spec) IN
    IF Len(parts) = 3
      THEN [err |-> FALSE,
            bind |-> <<"0.0.0.0", ":">> \o parts[1],
            target |-> parts[2] \o <<":">> \o parts[3]]
    ELSE IF Len(parts) = 4
      THEN [err |-> FALSE,
            bind |-> parts[1] \o <<":">> \o parts[2],
            target |-> parts[3] \o <<":">> \o parts[4]]
    ELSE ParseError

ParseDynamicForward(spec) ==
  IF ContainsColon(spec)
    THEN [err |-> FALSE, bind |-> spec, target |-> <<>>]
    ELSE [err |-> FALSE, bind |-> <<"127.0.0.1", ":">> \o spec, target |-> <<>>]

ParseInit ==
  /\ enabled = TRUE
  /\ maxRetries = 0
  /\ interval = defaultInterval
  /\ MonitorInit
  /\ args \in [kind : ForwardKinds, spec : SpecStrings]
  /\ out = <<>>

ParseFrame ==
  UNCHANGED <<cfgVars, monVars, cliVars, kaVars, mgrVars, epVars, histVars, args>>

ParseLocal ==
  /\ out = <<>>
  /\ args.kind = "local"
  /\ out' = <<ParseLocalForward(args.spec)>>
  /\ ParseFrame

ParseRemote ==
  /\ out = <<>>
  /\ args.kind = "remote"
  /\ out' = <<ParseRemoteForward(args.spec)>>
  /\ ParseFrame

ParseDynamic ==
  /\ out = <<>>
  /\ args.kind = "dynamic"
  /\ out' = <<ParseDynamicForward(args.spec)>>
  /\ ParseFrame

ParseNext == ParseLocal \/ ParseRemote \/ ParseDynamic

SpecParse == ParseInit /\ [][ParseNext]_vars

\* ------------------------------------------------- one relay on its own
\* bidirectionalCopy(ctx, conn1, conn2) and the handleConnection that called
\* it.  args gives each connection's kind ("tcp" for a *net.TCPConn, "chan"
\* for a connection the transport provides) and what its peer does: close
\* at once, close when it sees end-of-stream, or stay open.  In out, copy[d]
\* is the goroutine copying into connection d from the other one, rdEof[i]
\* says that reads from connection i have reached end-of-stream, wrShut[i]
\* that the write side of connection i has been shut down, ctx that the
\* context is cancelled, returned that bidirectionalCopy has returned and
\* closed that the caller's deferred Close() calls have run.
Conns == {1, 2}

\* The pairs the endpoints pass: LocalTunnel and DynamicTunnel (accepted TCP
\* connection, transport channel), RemoteTunnel (transport channel, dialed
\* TCP connection).
ConnKinds == {<<"tcp", "chan">>, <<"chan", "tcp">>}

PeerBehaviours == {"closesNow", "closesOnEof", "staysOpen"}

Other(i) == 3 - i

RelayInit ==
  /\ enabled = TRUE
  /\ maxRetries = 0
  /\ interval = defaultInterval
  /\ MonitorInit
  /\ args \in [kind : ConnKinds, peer : [Conns -> PeerBehaviours]]
  /\ out = [copy |-> [d \in Conns |-> "copying"],
            rdEof |-> [i \in Conns |-> args.peer[i] = "closesNow"],
            wrShut |-> [i \in Conns |-> FALSE],
            ctx |-> FALSE, returned |-> FALSE, closed |-> FALSE]

RelayFrame ==
  UNCHANGED <<cfgVars, monVars, cliVars, kaVars, mgrVars, epVars, histVars, args>>

\* copyFunc: if tcpConn, ok := dst.(*net.TCPConn); ok { tcpConn.CloseWrite() }
CloseWrite(d) == args.kind[d] = "tcp"

\* copyFunc: io.Copy(dst, src) returns, at end-of-stream of src or because
\* the connections were closed under it.
CopyReturns(d) ==
  /\ out.copy[d] = "copying"
  /\ out.rdEof[Other(d)] \/ out.closed
  /\ out' = [out EXCEPT !.copy[d] = "copied"]
  /\ RelayFrame

\* copyFunc: the half-close of dst, then wg.Done().
CopyDone(d) ==
  /\ out.copy[d] = "copied"
  /\ out' = [out EXCEPT !.copy[d] = "done",
                        !.wrShut[d] = @ \/ CloseWrite(d)]
  /\ RelayFrame

\* The peer of connection i sees end-of-stream and closes.
PeerCloses(i) ==
  /\ args.peer[i] = "closesOnEof"
  /\ out.wrShut[i]
  /\ ~out.rdEof[i]
  /\ out' = [out EXCEPT !.rdEof[i] = TRUE]
  /\ RelayFrame

\* The session scope is cancelled.
RelayCtxCancel ==
  /\ ~out.ctx
  /\ ~out.returned
  /\ out' = [out EXCEPT !.ctx = TRUE]
  /\ RelayFrame

\* select: case <-ctx.Done().
RelayReturnsOnCancel ==
  /\ ~out.returned
  /\ out.ctx
  /\ out' = [out EXCEPT !.returned = TRUE]
  /\ RelayFrame

\* select: case <-done, closed after wg.Wait().
RelayReturnsOnDone ==
  /\ ~out.returned
  /\ \A d \in Conns : out.copy[d] = "done"
  /\ out' = [out EXCEPT !.returned = TRUE]
  /\ RelayFrame

\* handleConnection: defer remoteConn.Close(), defer conn.Close().
CallerCloses ==
  /\ out.returned
  /\ ~out.closed
  /\ out' = [out EXCEPT !.closed = TRUE]
  /\ RelayFrame

RelayNext ==
  \/ \E d \in Conns : CopyReturns(d) \/ CopyDone(d) \/ PeerCloses(d)
  \/ RelayCtxCancel
  \/ RelayReturnsOnCancel
  \/ RelayReturnsOnDone
  \/ CallerCloses

SpecRelay == RelayInit /\ [][RelayNext]_vars

\* Every goroutine and every peer that can take a step eventually does; the
\* cancellation is the environment's choice.
FairRelay ==
  /\ SpecRelay
  /\ \A d \in Conns : /\ WF_vars(CopyReturns(d))
                      /\ WF_vars(CopyDone(d))
                      /\ WF_vars(PeerCloses(d))
  /\ WF_vars(RelayReturnsOnCancel)
  /\ WF_vars(RelayReturnsOnDone)
  /\ WF_vars(CallerCloses)

\* ---------------------------------------------- the endpoints on their own
\* A caller that uses the endpoints through the Tunnel interface alone: it
\* launches Start(ctx) of each in a goroutine, and then, in any order and
\* each at most once, cancels ctx and calls Stop() on each endpoint in turn.
CallerStarts ==
  /\ monPc = "idle"
  /\ gen = 0
  /\ gen' = 1
  /\ tunnels' = TRUE
  /\ ep' = [i \in Idx |-> NewTunnel]
  /\ monPc' = "monitor"
  /\ UNCHANGED <<ctxDone, startErr, graceOver, leaked>>
  /\ UNCHANGED <<running, stopClosed, retryCount, waitTime, result, why, stopIdx>>
  /\ UNCHANGED <<cfgVars, cliVars, kaVars, histVars, fnVars>>

CallerCancels ==
  /\ gen = 1
  /\ ~ctxDone
  /\ ctxDone' = TRUE
  /\ UNCHANGED <<gen, tunnels, startErr, graceOver>>
  /\ UNCHANGED <<cfgVars, monVars, cliVars, kaVars, epVars, histVars, fnVars>>

CallerStops ==
  /\ monPc = "monitor"
  /\ monPc' = "tunStop"
  /\ stopIdx' = 1
  /\ UNCHANGED <<running, stopClosed, retryCount, waitTime, result, why>>
  /\ UNCHANGED <<cfgVars, cliVars, kaVars, mgrVars, epVars, histVars, fnVars>>

CallerStopped ==
  /\ monPc = "tunStop"
  /\ stopIdx > NumTunnels
  /\ monPc' = "close"
  /\ UNCHANGED <<running, stopClosed, retryCount, waitTime, result, why, stopIdx>>
  /\ UNCHANGED <<cfgVars, cliVars, kaVars, mgrVars, epVars, histVars, fnVars>>

EndpointSteps ==
  \E i \in Idx :
    \/ EpListenOk(i)
    \/ EpListenFail(i)
    \/ EpAccept(i)
    \/ EpAcceptErr(i)
    \/ EpSpawn(i)
    \/ RelayReady(i)
    \/ RelayAbort(i)
    \/ RelayCancelled(i)
    \/ RelayDrained(i)

EndpointNext ==
  \/ CallerStarts
  \/ CallerCancels
  \/ CallerStops
  \/ TunnelStop
  \/ TunnelWait
  \/ CallerStopped
  \/ EndpointSteps

SpecEndpoint == ManagerInit /\ [][EndpointNext]_vars

\* The caller's calls and every goroutine that can take a step eventually
\* do; whether and when ctx is cancelled is the caller's choice.
FairEndpoint ==
  /\ SpecEndpoint
  /\ WF_vars(CallerStarts \/ TunnelStop \/ TunnelWait \/ CallerStopped)
  /\ \A i \in Idx :
       /\ WF_vars(EpListenOk(i) \/ EpListenFail(i))
       /\ WF_vars(EpAcceptErr(i))
       /\ WF_vars(EpSpawn(i))
       /\ WF_vars(RelayCancelled(i))
       /\ WF_vars(RelayReady(i) \/ RelayAbort(i))
       /\ WF_vars(RelayDrained(i))

\* ============================================================ properties
Min(a, b) == IF a < b THEN a ELSE b

RECURSIVE Pow2(_)
Pow2(k) == IF k = 0 THEN 1 ELSE 2 * Pow2(k - 1)

Teardown == {"mgrStop", "tunStop", "tunWait", "close"}

\* Manager.Stop() is in progress.
InStop == monPc \in Teardown

\* The Manager holds no tunnels and its session scope, if it ever had one,
\* is cancelled.
StoppedManager == ~tunnels /\ (gen > 0 => ctxDone) /\ (gen = 0 => ~ctxDone)

\* C1: with reconnection enabled and maxRetries = N > 0, Start() returns the
\* connection error at exactly the N-th consecutive failed Connect(), after
\* N-1 backoff waits; with maxRetries = 0 it never returns for having
\* failed too often.
C1_RetryBudget ==
  enabled =>
    /\ (result = "connErr" =>
          /\ maxRetries > 0
          /\ consecFails = maxRetries
          /\ backoffRun = maxRetries - 1)
    /\ (maxRetries > 0 /\ consecFails >= maxRetries =>
          monPc = "done" /\ result = "connErr")
    /\ (maxRetries = 0 => result # "connErr")

C1_Witness ==
  /\ enabled
  /\ maxRetries = MaxRetriesCfg
  /\ result = "connErr"
  /\ consecFails = MaxRetriesCfg
  /\ backoffRun = MaxRetriesCfg - 1

\* C1, the unlimited case: MaxFails failures in a row and Start() still runs.
C1_WitnessUnlimited ==
  enabled /\ maxRetries = 0 /\ consecFails = MaxFails /\ monPc = "backoff"

\* C2: once Stop() has closed the stop channel, Start() eventually returns,
\* whatever the Monitor was doing (short of the exploration bound on
\* Connect() calls).
ConnectAtBound ==
  monPc = "connect" /\ gen = MaxSessions /\ consecFails = MaxFails

C2_StopLeadsToReturn == stopClosed ~> (monPc = "done" \/ ConnectAtBound)

\* C3: when Connect() is called, the previous session is fully torn down:
\* transport closed, session scope cancelled, no listener bound, no accept
\* loop holding a connection, no relay task alive.
C3_NoSessionOverlap ==
  monPc = "connect" =>
    /\ conn = 0
    /\ (gen > 0 => ctxDone)
    /\ leaked = {}
    /\ \A i \in Idx : ~ep[i].open /\ ep[i].pc # "accepted" /\ wg(i) = 0

\* C4: an error returned by Manager.Start() within its grace window makes
\* Monitor.Start() return that error.
C4_BindFailureIsFatal ==
  [][(monPc = "mgrWait" /\ ~ctxDone /\ ctxDone') =>
       (monPc' = "done" /\ result' \notin {"none", "nil"})]_vars

\* C5: when Manager.Start() fails after a successful Connect(), the transport
\* is closed and the loop is back at its top at once: no backoff, retryCount
\* still 0, nothing counted against the retry budget, Start() still running.
C5_TunnelStartFailureRetriesAtOnce ==
  [][(monPc = "mgrWait" /\ ~ctxDone /\ ctxDone') =>
       /\ conn' = 0 /\ closed'
       /\ monPc' = "check"
       /\ retryCount = 0 /\ retryCount' = 0
       /\ consecFails' = 0 /\ backoffRun' = 0
       /\ result' = "none"]_vars

C5_Witness ==
  monPc = "check" /\ tunnels /\ ctxDone /\ conn = 0 /\ retryCount = 0

FirstDelay == Min(interval, maxBackoff)

C8_NoReconnectWhenDisabled ==
  ~enabled =>
    /\ monPc # "backoff" /\ backoffRun = 0
    /\ (consecFails > 0 =>
          monPc = "done" /\ result = "connErr" /\ consecFails = 1)
    /\ (why = "err" => monPc \in Teardown \cup {"done"})
    /\ (why = "err" /\ monPc = "done" =>
          /\ result = "kaErr"
          /\ ~tunnels /\ ctxDone
          /\ conn = 0 /\ closed)

C8_Witness ==
  ~enabled /\ why = "err" /\ monPc = "done" /\ result = "kaErr"

\* C9: on a stop signal while monitoring the Manager is stopped while the
\* transport is still open, the transport is closed next, and Start()
\* returns nil; a stop during a backoff wait ends Start() with nil and
\* without another Connect().
C9_StopOrder ==
  /\ (why = "stop" => monPc \in Teardown \cup {"done"})
  /\ (why = "stop" /\ monPc \in {"mgrStop", "tunStop", "tunWait"} =>
        conn # 0 /\ ~closed)
  /\ (why = "stop" /\ monPc = "close" => ~tunnels /\ ctxDone /\ conn # 0)
  /\ (why = "stop" /\ monPc = "done" =>
        result = "nil" /\ ~tunnels /\ ctxDone /\ conn = 0 /\ closed)
  /\ (stopAt = "backoff" =>
        /\ monPc \in {"backoff", "check", "done"}
        /\ (monPc = "done" => result = "nil"))

C9_Witness ==
  why = "stop" /\ stopAt = "monitor" /\ monPc = "done" /\ result = "nil"

\* C10: the stop channel is closed at most once however often Stop() is
\* called, and a call to Stop() can complete in every state of Start().
C10_StopIdempotent ==
  /\ stopCloses <= 1
  /\ stopClosed = (stopCloses = 1)
  /\ (stopClosed => ~running)
  /\ (stopCalls < MaxStopCalls => ENABLED MonitorStop)

C10_Witness ==
  stopCalls = MaxStopCalls /\ stopCloses = 1 /\ monPc \notin {"idle", "done"}

\* C11: Manager.Start() returns a startup failure only if one was reported
\* while it waited, always if one was reported and the grace window has not
\* elapsed, and success (only once the window has elapsed) if none was
\* reported; a failure reported after Start() has returned changes neither
\* the Monitor, nor the session scope, nor m.tunnels, nor any other endpoint.
StartReturnsFailure == monPc = "mgrWait" /\ ~ctxDone /\ ctxDone'

StartReturnsSuccess == monPc = "mgrWait" /\ monPc' = "monitor"

LateFailure == monPc \notin {"mgrStart", "mgrWait"} /\ ~startErr /\ startErr'

C11_GraceWindow ==
  [][/\ (monPc = "mgrWait" /\ monPc' # "mgrWait" =>
          /\ (StartReturnsFailure \/ StartReturnsSuccess)
          /\ (StartReturnsFailure => startErr)
          /\ (startErr /\ ~graceOver => StartReturnsFailure)
          /\ (~startErr => StartReturnsSuccess /\ ~ctxDone')
          /\ (StartReturnsSuccess => graceOver /\ ~ctxDone' /\ tunnels'))
     /\ (LateFailure =>
          /\ UNCHANGED <<monVars, cliVars, gen, tunnels, ctxDone, leaked>>
          /\ \E i \in Idx :
               /\ ep'[i].pc = "exited"
               /\ \A j \in Idx \ {i} : ep'[j] = ep[j])]_vars

C11_Witness ==
  /\ monPc = "monitor"
  /\ startErr
  /\ ~ctxDone
  /\ \E i, j \in Idx : ep[i].pc = "exited" /\ ep[j].pc = "accept" /\ ep[j].open

\* C12: once Manager.Start() has returned a startup failure, every listener
\* bound by that attempt is eventually released (unless Start() of the
\* Monitor returns first, or the exploration bound on Connect() is reached).
Released == leaked = {} /\ \A i \in Idx : ~ep[i].open

C12_FailedStartReleasesListeners ==
  (monPc = "check" /\ tunnels /\ ctxDone)
    ~> (Released \/ monPc = "done" \/ ConnectAtBound)

\* C13: in Restart(), when Stop() has returned and Start() takes over,
\* nothing of the previous session is left (no open listener, no accepted
\* connection about to become a relay task, no relay task), and when
\* Restart() has returned success m.tunnels holds the endpoints of a new,
\* uncancelled session.
C13_RestartIsStopThenStart ==
  /\ (monPc = "mgrStart" /\ why = "restart" =>
        /\ StoppedManager
        /\ \A i \in Idx : ~ep[i].open /\ ep[i].pc # "accepted" /\ wg(i) = 0)
  /\ (monPc = "idle" /\ why = "restart" /\ result = "started" =>
        tunnels /\ ~ctxDone /\ gen > 0)

\* C14: once Stop() of a started endpoint has returned (it found the listener
\* set, closed it and waited), no relay task of that endpoint is running and
\* its accept loop holds no accepted connection it will still hand to a new
\* relay task.
StopReturned(i) ==
  /\ monPc \in {"tunStop", "tunWait", "close"}
  /\ i < stopIdx
  /\ ep[i].pc \notin {"none", "spawned"}
  /\ ~ep[i].field

C14_StopIsJoinBarrier ==
  \A i \in Idx : StopReturned(i) => wg(i) = 0 /\ ep[i].pc # "accepted"

\* C15: once the session scope is cancelled, every relay task of the session
\* eventually exits (unless Start() of the Monitor returns first, or the
\* exploration bound on Connect() is reached).
C15_CancelDrainsRelays ==
  (ctxDone /\ \E i \in Idx : wg(i) > 0)
    ~> ((\A i \in Idx : wg(i) = 0) \/ monPc = "done" \/ ConnectAtBound)

\* C16: Manager.Stop() leaves no endpoints and a cancelled session scope
\* whenever it returns; called on a Manager that holds no tunnels (never
\* started, or already stopped) it waits for nothing, every step of it can
\* be taken at once, and it changes nothing: m.tunnels stays nil, the scope
\* (if there ever was one) stays cancelled, no endpoint is touched.
C16_ManagerStopIdempotent ==
  [][/\ (monPc = "close" => StoppedManager)
     /\ (InStop /\ ~tunnels =>
          /\ monPc # "tunWait"
          /\ (monPc = "mgrStop" => ENABLED MgrStop)
          /\ (monPc = "tunStop" => ENABLED MgrStopDone)
          /\ (monPc = "close" => ENABLED StopReturns)
          /\ ~tunnels' /\ gen' = gen
          /\ (gen > 0 /\ ctxDone => ctxDone')
          /\ (gen = 0 => ~ctxDone')
          /\ (monPc' # monPc => ep' = ep /\ leaked' = leaked))]_vars

C16_Witness ==
  /\ monPc = "close"
  /\ why = "stop"
  /\ result = "stopped"
  /\ gen > 0
  /\ StoppedManager

\* ------------------------------------------------------------- SOCKS5
\* The first byte the client has sent is not the SOCKS5 version.
BadFirstByte == Len(args.stream) >= 1 /\ args.stream[1] # 5

\* C17: when the first byte a client sends is not 0x05 the endpoint never
\* writes a byte to it, never reads past the 2-byte greeting header (so no
\* request is read), never dials and never relays; its only step is the one
\* that closes the connection, which it takes as soon as the header has
\* arrived or the client has closed.
C17_BadVersionDropped ==
  BadFirstByte =>
    /\ out.writes = <<>>
    /\ out.dials = 0
    /\ ~out.relay
    /\ out.target = <<>>
    /\ out.pos <= 2
    /\ out.pc \in {"handshake", "closed"}
    /\ (out.pc = "handshake" /\ (Len(args.stream) >= 2 \/ args.eof) =>
          ENABLED handshakeHeader)

C17_Witness ==
  /\ BadFirstByte
  /\ Len(args.stream) > 2
  /\ out.pc = "closed"
  /\ out.pos = 2
  /\ out.writes = <<>>

\* The method list of a greeting that has arrived in full.
OfferedMethods == SubSeq(args.stream, 3, 2 + args.stream[2])

\* C18: once the whole method list has arrived, empty or not, the endpoint
\* writes exactly (0x05,0x00) and goes on to the request phase if 0x00 is in
\* the list (unless that write fails, which closes the connection), and
\* otherwise writes exactly (0x05,0xFF) and closes without consuming a byte
\* beyond the list; a closed connection takes no further step.
C18_MethodNegotiation ==
  [][ /\ out.pc # "closed"
      /\ (out.pc = "methods" /\ Len(args.stream) >= 2 + args.stream[2] =>
            /\ out'.pos = 2 + Len(OfferedMethods)
            /\ IF \E k \in 1..Len(OfferedMethods) : OfferedMethods[k] = 0
                 THEN /\ out'.writes = << <<5, 0>> >>
                      /\ out'.pc = IF args.wErr THEN "closed" ELSE "request"
                 ELSE /\ out'.writes = << <<5, 255>> >>
                      /\ out'.pc = "closed") ]_vars

C18_Witness ==
  /\ Len(args.stream) >= 4
  /\ args.stream[2] = 2
  /\ args.stream[3] = 2
  /\ args.stream[4] = 0
  /\ out.pc = "request"
  /\ out.writes = << <<5, 0>> >>

\* The four header bytes of a request that has arrived in full and is about
\* to be read.
RequestHeaderArrived == out.pc = "request" /\ Len(args.stream) - out.pos >= 4

ReqByte(k) == args.stream[out.pos + k]

\* The step writes one more buffer, a request reply with the given code, and
\* closes the connection without a dial or a relay.
RefusedWith(code) ==
  /\ Len(out'.writes) = Len(out.writes) + 1
  /\ out'.writes[Len(out'.writes)][1] = 5
  /\ out'.writes[Len(out'.writes)][2] = code
  /\ out'.pc = "closed"
  /\ out'.dials = 0
  /\ ~out'.relay

\* The step closes the connection without writing, dialing or relaying.
DroppedSilently ==
  /\ out'.writes = out.writes
  /\ out'.pc = "closed"
  /\ out'.dials = 0
  /\ ~out'.relay

\* C19 as stated: every request whose command byte is not CONNECT is answered
\* with reply code 0x07 and dropped, with no dial and no relay.
C19_NonConnectRefused ==
  [][ RequestHeaderArrived /\ ReqByte(2) # 1 => RefusedWith(7) ]_vars

\* C19, amended: a request whose version byte is 0x05 and whose command byte
\* is not CONNECT is answered with reply code 0x07 and dropped, with no dial
\* and no relay; a request whose version byte is not 0x05 is dropped with no
\* reply at all, whatever its command byte.
C19_NonConnectRefusedVersion5 ==
  [][ RequestHeaderArrived /\ ReqByte(2) # 1 =>
        IF ReqByte(1) = 5 THEN RefusedWith(7) ELSE DroppedSilently ]_vars

C19_Witness ==
  /\ out.pc = "closed"
  /\ out.pos >= 6
  /\ args.stream[out.pos - 3] = 5
  /\ args.stream[out.pos - 2] = 3
  /\ Len(out.writes) = 2
  /\ out.writes[2][2] = 7
  /\ out.dials = 0

\* C20 as stated: every CONNECT request whose address type is none of 0x01,
\* 0x03, 0x04 is answered with reply code 0x08 and dropped, with no dial.
C20_UnknownAddrTypeRefused ==
  [][ RequestHeaderArrived /\ ReqByte(2) = 1 /\ ReqByte(4) \notin {1, 3, 4} =>
        RefusedWith(8) ]_vars

\* C20, amended: a CONNECT request whose version byte is 0x05 and whose
\* address type is none of 0x01, 0x03, 0x04 is answered with reply code 0x08
\* and dropped, with no dial; with any other version byte it is dropped with
\* no reply at all.
C20_UnknownAddrTypeRefusedVersion5 ==
  [][ RequestHeaderArrived /\ ReqByte(2) = 1 /\ ReqByte(4) \notin {1, 3, 4} =>
        IF ReqByte(1) = 5 THEN RefusedWith(8) ELSE DroppedSilently ]_vars

C20_Witness ==
  /\ out.pc = "closed"
  /\ out.pos >= 6
  /\ args.stream[out.pos - 3] = 5
  /\ args.stream[out.pos - 2] = 1
  /\ args.stream[out.pos] = 5
  /\ Len(out.writes) = 2
  /\ out.writes[2][2] = 8
  /\ out.dials = 0

\* A buffer written to the client is a request reply: 10 bytes, the first
\* the SOCKS5 version.
IsReply(buf) == Len(buf) = 10 /\ buf[1] = 5

\* C21: on a connection whose CONNECT request was parsed, at most one request
\* reply is ever written; once the dial has failed the connection is closed
\* with exactly the reply 0x04 written after the method selection and no
\* relay; once the dial has succeeded the reply 0x00 is the second buffer
\* written, the relay starts only with it written, and every relayed buffer
\* comes after it.
C21_OneReplyBeforeRelay ==
  /\ out.dials <= 1
  /\ (out.dials = 1 => out.target # <<>>)
  /\ Cardinality({k \in 1..Len(out.writes) : IsReply(out.writes[k])}) <= 1
  /\ (out.dials = 1 /\ ~args.dialOk =>
        /\ out.pc = "closed"
        /\ Len(out.writes) = 2
        /\ IsReply(out.writes[2])
        /\ out.writes[2][2] = 4
        /\ ~out.relay)
  /\ (out.pc = "reply" => out.dials = 1 /\ ~out.relay /\ Len(out.writes) = 1)
  /\ (out.dials = 1 /\ args.dialOk /\ out.pc # "reply" =>
        /\ out.relay
        /\ Len(out.writes) >= 2
        /\ IsReply(out.writes[2])
        /\ out.writes[2][2] = 0)
  /\ (out.relay \/ Len(out.writes) > 2 =>
        /\ out.dials = 1
        /\ Len(out.writes) >= 2
        /\ IsReply(out.writes[2])
        /\ out.writes[2][2] = 0)

C21_Witness ==
  /\ out.relay
  /\ out.dials = 1
  /\ Len(out.writes) = 3
  /\ out.writes[2][2] = 0
  /\ out.writes[3] = <<42>>

\* The four address bytes a success reply is to carry for a local address:
\* the address itself if it is IPv4, the embedded address if it is
\* IPv4-mapped, and 0.0.0.0 otherwise.
BindBytes(ip) ==
  IF Len(ip) = 4 THEN ip
  ELSE IF \A k \in 1..10 : ip[k] = 0 /\ ip[11] = 255 /\ ip[12] = 255
    THEN <<ip[13], ip[14], ip[15], ip[16]>>
  ELSE <<0, 0, 0, 0>>

\* C22: every request reply (the buffer written after the method selection)
\* is exactly 10 bytes: 0x05, a reply code, 0x00, 0x01, 4 address bytes and 2
\* port bytes; a success reply carries the local accept address, 0.0.0.0 if
\* that is not IPv4-representable, and the local port big-endian; every
\* negative reply carries six zero bytes.
C22_ReplyFormat ==
  Len(out.writes) >= 2 =>
    LET r == out.writes[2] IN
      /\ Len(r) = 10
      /\ \A k \in 1..10 : r[k] \in 0..255
      /\ r[1] = 5
      /\ r[2] \in {0, 4, 7, 8}
      /\ r[3] = 0
      /\ r[4] = 1
      /\ IF r[2] = 0
           THEN /\ SubSeq(r, 5, 8) = BindBytes(args.local.ip)
                /\ r[9] * 256 + r[10] = args.local.port
           ELSE SubSeq(r, 5, 10) = <<0, 0, 0, 0, 0, 0>>

C22_Witness ==
  /\ Len(args.local.ip) = 16
  /\ args.local.ip[12] = 0
  /\ Len(out.writes) >= 2
  /\ out.writes[2] = <<5, 0, 0, 1, 0, 0, 0, 0, 4, 56>>

\* ------------------------------------------------------ forward specs
\* C24: for a local or a remote spec, three fields port:host:hostport parse
\* to bind 127.0.0.1:port and target host:hostport, four fields
\* bind:port:host:hostport to bind bind:port and target host:hostport, and
\* any other number of fields is an error; a dynamic spec without ':' parses
\* to bind 127.0.0.1:port and one with ':' to itself.
C24_ShorthandParsing ==
  out # <<>> =>
    LET parts == Split(args.spec)
        r == out[1]
    IN IF args.kind = "dynamic"
         THEN /\ ~r.err
              /\ r.bind = IF \E k \in 1..Len(args.spec) : args.spec[k] = ":"
                            THEN args.spec
                            ELSE <<"127.0.0.1", ":">> \o args.spec
         ELSE IF Len(parts) = 3
           THEN /\ ~r.err
                /\ r.bind = <<"127.0.0.1", ":">> \o parts[1]
                /\ r.target = parts[2] \o <<":">> \o parts[3]
         ELSE IF Len(parts) = 4
           THEN /\ ~r.err
                /\ r.bind = parts[1] \o <<":">> \o parts[2]
                /\ r.target = parts[3] \o <<":">> \o parts[4]
         ELSE r.err

\* -------------------------------------------------------------- relay
\* C23: a direction that has finished before the relay is torn down has shut
\* the write side of its destination, whatever the destination's kind; and
\* when one peer closes at once and the other closes on seeing
\* end-of-stream, bidirectionalCopy returns.
C23_HalfCloseEndsRelay ==
  /\ [](\A d \in Conns : out.copy[d] = "done" /\ ~out.closed => out.wrShut[d])
  /\ ((\E i \in Conns : /\ args.peer[i] = "closesNow"
                        /\ args.peer[3 - i] # "staysOpen")
        ~> out.returned)

\* ------------------------------------------------- endpoint Start and Stop
\* Manager.Stop() has called Stop() on tunnel i and that call has returned.
StopCalled(i) ==
  /\ monPc \in {"tunStop", "tunWait", "close"}
  /\ i < stopIdx
  /\ ep[i].pc # "none"

\* C25: once Stop() of an endpoint has returned and its Start() has returned
\* too, the endpoint's listener is not open.
C25_ListenerReleased ==
  \A i \in Idx : StopCalled(i) /\ ep[i].pc = "exited" => ~ep[i].open

\* C26: once Stop() has closed the listener of a running endpoint, the
\* endpoint's Start() eventually returns, whether or not ctx is cancelled.
C26_StopEndsAcceptLoop ==
  \A i \in Idx :
    (StopCalled(i) /\ ~ep[i].open /\ ep[i].pc \in {"accept", "accepted"})
      ~> (ep[i].pc = "exited")

\* ----------------------------------------------------------- keepalive
\* C28: at most one keepalive task is alive, and a task that is alive while
\* the transport is connected is the one started for that transport.
C28_SingleKeepAlive ==
  /\ Cardinality(kaAlive) <= 1
  /\ (conn # 0 => \A s \in kaAlive : s = conn)

C28_Witness == gen = 2 /\ conn = 2 /\ kaAlive = {2} /\ monPc = "monitor"

\* ------------------------------------------------------- containment
\* A relay task of endpoint i returns in this step.
ConnectionEnds(i) ==
  /\ gen' = gen
  /\ ep'[i].pre + ep'[i].copy < ep[i].pre + ep[i].copy

\* C27: a step in which a connection of an endpoint ends (dial failure,
\* protocol violation, relay finished or failed) removes exactly that relay
\* task and changes nothing else: the endpoint's accept loop and listener,
\* its other relay tasks, every other endpoint, the Monitor (session,
\* retryCount), the Client, the keepalive task and the Manager are as before.
C27_FailuresContained ==
  [][ \A i \in Idx : ConnectionEnds(i) =>
        /\ ep'[i].pre + ep'[i].copy = ep[i].pre + ep[i].copy - 1
        /\ ep'[i].pre <= ep[i].pre
        /\ ep'[i].copy <= ep[i].copy
        /\ ep'[i].pc = ep[i].pc
        /\ ep'[i].open = ep[i].open
        /\ ep'[i].field = ep[i].field
        /\ \A j \in Idx \ {i} : ep'[j] = ep[j]
        /\ leaked' = leaked
        /\ UNCHANGED <<monVars, cliVars, kaVars, mgrVars>> ]_vars

C27_Witness ==
  /\ connFailed
  /\ monPc = "monitor"
  /\ ~ctxDone
  /\ conn # 0
  /\ retryCount = 0
  /\ \E i, j \in Idx :
       /\ i # j
       /\ ep[i].pc = "accept" /\ ep[i].open /\ wg(i) = 0
       /\ ep[j].open /\ wg(j) = 1

\* ------------------------------------------------------------ stop request
\* C29: a Stop() called at any point after Start() was launched, also before
\* Start() has set m.running, is not lost: the stop channel is closed from
\* then on, and Start() eventually returns (short of the exploration bound
\* on Connect() calls).
C29_StopNeverLost ==
  /\ [](stopCalls > 0 => stopClosed)
  /\ (stopCalls > 0 ~> (monPc = "done" \/ ConnectAtBound))

====
